---- MODULE Spec2Model ----
(***************************************************************************)
(* Model of src/index.tsx: three browser pages sharing one file.           *)
(*   lines   1-271  context image edit   (app = "context")                 *)
(*   lines 272-446  destination image edit (app = "destination")           *)
(*   lines 447-672  image-to-video       (app = "video")                   *)
(* A behaviour runs one page; Init picks which.  Strings are sequences of  *)
(* tokens, so that trimming, splitting and concatenation are computed.     *)
(* The markup is not part of the sources: the trigger buttons are taken to *)
(* start disabled and the text fields empty, as the handlers leave them    *)
(* when nothing is selected.  The image pages' preview elements            *)
(* (originalImage and its placeholder) are written by a separate reader,   *)
(* never read, and are left out.                                           *)
(***************************************************************************)
EXTENDS Integers, Sequences, FiniteSets, TLC

VARIABLES
  app,               \* which page runs
  selectedFile,      \* image pages: let selectedFile (0 = null)
  selectedContext,   \* context page: let selectedContext
  promptValue,       \* promptInput.value
  checkedDestination,\* destination page: the checked radio's value, or Null
  dom,               \* display state of the elements the code writes
  handlers,          \* the async click handlers, by start order
  nStarted,          \* number of click handlers that went past their guard
  imgLoads,          \* context page: Image objects waiting for onload
  has2d,             \* context page: whether canvas.getContext('2d') is non-null
  imageFile,         \* video page: let imageFile (0 = null)
  imageBase64,       \* video page: let imageBase64
  conversions,       \* video page: handleImageUpload calls awaiting fileToBase64
  messageInterval,   \* video page: let messageInterval (0 = never set)
  timers,            \* video page: live setInterval timers, id -> messageIndex
  lastAlert,         \* video page: text of the last alert()
  fnIn,              \* pure-function specifications: the input
  fnOut              \* pure-function specifications: the result

vars == <<app, selectedFile, selectedContext, promptValue, checkedDestination,
          dom, handlers, nStarted, imgLoads, has2d,
          imageFile, imageBase64,
          conversions, messageInterval, timers, lastAlert, fnIn, fnOut>>

----------------------------------------------------------------------------
(* Bounds *)

MaxClicks == 2      \* click handlers started in one behaviour
MaxPolls  == 2      \* status polls of one video operation
MaxLen    == 1      \* length of the text typed into the prompt field
NumFiles  == 2      \* distinct files the user can pick
MaxBytes  == 3      \* file length in the fileToBase64 specification
MaxText   == 4      \* free-text length in the prompt-builder specification
MaxParts  == 2      \* parts in one generateContent response
MaxDim    == 4      \* image sides are 25, 50, .. 25 * MaxDim pixels
MaxRuns   == 2      \* watermark runs on the one canvas

----------------------------------------------------------------------------
(* Values *)

NoFile    == 0
Null      == <<"null">>
Undefined == <<"undefined">>
Files     == 1..NumFiles
NoResult  == [state |-> "pending", value |-> <<>>]
Contexts  == {"clothes", "celebrity", "background"}
Destinations == {<<"Kaaba">>, <<"Masjid an-Nabawi">>, <<>>}
Chars     == {" ", "x"}
ByteVals  == {0, 77, 255}

RECURSIVE SeqsUpTo(_, _)
SeqsUpTo(S, n) ==
  IF n = 0 THEN {<<>>}
  ELSE LET shorter == SeqsUpTo(S, n - 1)
       IN  shorter \cup {Append(s, c) : s \in shorter, c \in S}

PromptValues == SeqsUpTo(Chars, MaxLen)

FileType(f)  == IF f % 2 = 1 THEN "image/png" ELSE "image/jpeg"
FileBytes(f) == IF f % 2 = 1 THEN <<77>> ELSE <<255, 0>>

----------------------------------------------------------------------------
(* String.prototype.trim and String.prototype.split(',') *)

RECURSIVE TrimStart(_)
TrimStart(s) ==
  IF s = <<>> THEN <<>>
  ELSE IF Head(s) = " " THEN TrimStart(Tail(s)) ELSE s

RECURSIVE TrimEnd(_)
TrimEnd(s) ==
  IF s = <<>> THEN <<>>
  ELSE IF s[Len(s)] = " " THEN TrimEnd(SubSeq(s, 1, Len(s) - 1)) ELSE s

Trim(s) == TrimEnd(TrimStart(s))

RECURSIVE SplitComma(_)
SplitComma(s) ==
  IF \A i \in 1..Len(s) : s[i] # ","
  THEN <<s>>
  ELSE LET i == CHOOSE j \in 1..Len(s) :
                  s[j] = "," /\ \A k \in 1..(j - 1) : s[k] # ","
       IN  <<SubSeq(s, 1, i - 1)>> \o SplitComma(SubSeq(s, i + 1, Len(s)))

Contains(s, t) ==
  \E i \in 0..(Len(s) - Len(t)) : SubSeq(s, i + 1, i + Len(t)) = t

----------------------------------------------------------------------------
(* FileReader.readAsDataURL: "data:<type>;base64,<base64 of the bytes>" *)

B64Chars ==
  <<"A","B","C","D","E","F","G","H","I","J","K","L","M","N","O","P",
    "Q","R","S","T","U","V","W","X","Y","Z","a","b","c","d","e","f",
    "g","h","i","j","k","l","m","n","o","p","q","r","s","t","u","v",
    "w","x","y","z","0","1","2","3","4","5","6","7","8","9","+","/">>

B64Val(c) == (CHOOSE i \in 1..64 : B64Chars[i] = c) - 1

RECURSIVE Base64Encode(_)
Base64Encode(b) ==
  IF Len(b) = 0 THEN <<>>
  ELSE IF Len(b) = 1 THEN
    <<B64Chars[(b[1] \div 4) + 1], B64Chars[((b[1] % 4) * 16) + 1], "=", "=">>
  ELSE IF Len(b) = 2 THEN
    <<B64Chars[(b[1] \div 4) + 1],
      B64Chars[((b[1] % 4) * 16 + (b[2] \div 16)) + 1],
      B64Chars[((b[2] % 16) * 4) + 1], "=">>
  ELSE
    <<B64Chars[(b[1] \div 4) + 1],
      B64Chars[((b[1] % 4) * 16 + (b[2] \div 16)) + 1],
      B64Chars[((b[2] % 16) * 4 + (b[3] \div 64)) + 1],
      B64Chars[(b[3] % 64) + 1]>> \o Base64Encode(SubSeq(b, 4, Len(b)))

RECURSIVE Base64Decode(_)
Base64Decode(s) ==
  IF Len(s) < 4 THEN <<>>
  ELSE LET v1 == B64Val(s[1])
           v2 == B64Val(s[2])
           rest == Base64Decode(SubSeq(s, 5, Len(s)))
       IN  IF s[3] = "=" THEN <<v1 * 4 + (v2 \div 16)>>
           ELSE IF s[4] = "="
           THEN <<v1 * 4 + (v2 \div 16), (v2 % 16) * 16 + (B64Val(s[3]) \div 4)>>
           ELSE <<v1 * 4 + (v2 \div 16),
                  (v2 % 16) * 16 + (B64Val(s[3]) \div 4),
                  (B64Val(s[3]) % 4) * 64 + B64Val(s[4])>> \o rest

DataUrlPrefix(type) == <<"data:", type, ";base64", ",">>

readAsDataURL(type, bytes) == DataUrlPrefix(type) \o Base64Encode(bytes)

\* variant: split(',')[0]
fileToBase64_firstPiece(type, bytes) ==
  SplitComma(readAsDataURL(type, bytes))[1]

\* fileToBase64's onload: (reader.result as string).split(',')[1]
fileToBase64(type, bytes) ==
  LET pieces == SplitComma(readAsDataURL(type, bytes))
  IN  IF Len(pieces) >= 2 THEN pieces[2] ELSE Undefined

----------------------------------------------------------------------------
(* Prompt builders *)

\* variant: the input value is embedded without trim()
buildPrompt_untrimmed(context, value) ==
  CASE context = "clothes" ->
         <<"Change the clothes of the person in the image to be: ">>
           \o value
           \o <<". Ensure the result is a high-quality, realistic photo.">>
    [] context = "celebrity" ->
         <<"Add the celebrity \"">>
           \o value
           \o <<"\" standing next to the person in this image. Do not change the original person. The result should be a high-quality, realistic photo.">>
    [] context = "background" ->
         <<"Change only the background of this image to: ">>
           \o value
           \o <<". Do not change the person or their clothes. The result should be a high-quality, realistic photo.">>
    [] OTHER -> <<>>

\* context page, lines 137-150
buildPrompt(context, value) ==
  LET inputValue == Trim(value)
  IN  CASE context = "clothes" ->
             <<"Change the clothes of the person in the image to be: ">>
               \o inputValue
               \o <<". Ensure the result is a high-quality, realistic photo.">>
        [] context = "celebrity" ->
             <<"Add the celebrity \"">>
               \o inputValue
               \o <<"\" standing next to the person in this image. Do not change the original person. The result should be a high-quality, realistic photo.">>
        [] context = "background" ->
             <<"Change only the background of this image to: ">>
               \o inputValue
               \o <<". Do not change the person or their clothes. The result should be a high-quality, realistic photo.">>
        [] OTHER -> <<>>

\* destination page, line 382: (querySelector(...:checked))?.value || 'Kaaba'
selectedDestination(checked) ==
  IF checked = Null \/ checked = <<>> THEN <<"Kaaba">> ELSE checked

\* destination page, line 385
buildDestinationPrompt(checked) ==
  <<"Take the person in the image and place them in front of the ">>
    \o selectedDestination(checked)
    \o <<" in Saudi Arabia. The person should be wearing Ihram (ehram).">>

----------------------------------------------------------------------------
(* Image pages: helpers on the display state *)

NoData == [of |-> NoFile, n |-> 0]
NoSrc  == [mimeType |-> "", data |-> NoData, stamped |-> FALSE]

NoImageMessage ==
  "The AI did not return an image. The request may have been blocked or the model could not fulfill it. Please try a different image."
UnknownMessage == "An unknown error occurred."
SelectFirstMessage == "Please select an image first."
ApiMessages == {"Network error"}

\* context page, lines 44-47
updateButtonState(d, file, value) ==
  LET isTextInputFilled == Trim(value) # <<>>
  IN  [d EXCEPT !.applyDisabled = (file = NoFile) \/ ~isTextInputFilled]

\* destination page, lines 312-314
updateButtonStateDest(d, file) ==
  [d EXCEPT !.applyDisabled = (file = NoFile)]

buttonState(d, file, value) ==
  IF app = "context" THEN updateButtonState(d, file, value)
  ELSE updateButtonStateDest(d, file)

\* lines 54-69 and 321-336; error = "" stands for an omitted argument
updateUI(d, isLoading, error, file, value) ==
  LET d1 == [d EXCEPT !.loader = IF isLoading THEN "block" ELSE "none"]
      d2 == IF isLoading THEN [d1 EXCEPT !.applyDisabled = TRUE]
            ELSE buttonState(d1, file, value)
  IN  IF error # ""
      THEN [d2 EXCEPT !.errorText = <<"Error: ", error>>,
                      !.errorDisplay = "block"]
      ELSE [d2 EXCEPT !.errorDisplay = "none"]

\* the catch and finally blocks, lines 264-270 and 439-445
catchFinally(d, message, file, value) ==
  updateUI(updateUI(d, FALSE, message, file, value), FALSE, "", file, value)

\* variant: no cleanup after a successful request
finallyOnly_missing(d, file, value) == d

\* the finally block alone
finallyOnly(d, file, value) == updateUI(d, FALSE, "", file, value)

\* error instanceof Error ? error.message : "An unknown error occurred."
errorMessageOf(error) ==
  IF error.isError THEN error.message ELSE UnknownMessage

resetResult(d) ==
  [d EXCEPT !.editedSrc = NoSrc, !.editedDisplay = "none",
            !.editedPlaceholder = "block"]

NoReq == [data |-> Null, mimeType |-> "", text |-> <<>>, context |-> "", value |-> <<>>]

\* one call of a click handler: where it is suspended, the file it was
\* started with, the payload it sent; context remembers, while the file read
\* is pending, which context was selected when the button was clicked
IdleHandler ==
  [pc |-> "none", file |-> NoFile, context |-> "", req |-> NoReq,
   outcome |-> "none", delays |-> 0, polls |-> 0]

Finished(outcome) == [IdleHandler EXCEPT !.pc = "fin", !.outcome = outcome]

HandlerIds == 1..MaxClicks
NoTimer == -1

ImageDom ==
  [loader |-> "none", applyDisabled |-> TRUE,
   errorText |-> <<>>, errorDisplay |-> "none",
   editedSrc |-> NoSrc, editedDisplay |-> "none", editedPlaceholder |-> "block",
   downloadHref |-> NoSrc, downloadDisplay |-> "none",
   placeholder |-> "Describe the clothing..."]

ImageApps == {"context", "destination"}

InitImage ==
  /\ app \in ImageApps
  /\ selectedFile = NoFile
  /\ selectedContext = "clothes"
  /\ promptValue = <<>>
  /\ checkedDestination \in (IF app = "destination" THEN {Null, <<"Kaaba">>} ELSE {Null})
  /\ dom = ImageDom
  /\ handlers = [h \in HandlerIds |-> IdleHandler]
  /\ nStarted = 0
  /\ imgLoads = {}
  /\ has2d \in (IF app = "context" THEN BOOLEAN ELSE {FALSE})
  /\ imageFile = NoFile
  /\ imageBase64 = Null
  /\ conversions = {}
  /\ messageInterval = 0
  /\ timers = [t \in HandlerIds |-> NoTimer]
  /\ lastAlert = <<>>
  /\ fnIn = Null
  /\ fnOut = NoResult

videoUnchanged ==
  UNCHANGED <<imageFile, imageBase64, conversions, messageInterval, timers,
              lastAlert, fnIn, fnOut>>

imageUnchanged ==
  UNCHANGED <<selectedFile, selectedContext, checkedDestination, imgLoads,
              has2d>>

----------------------------------------------------------------------------
(* Image pages: the generateContent response *)

\* the MIME type the service gives the inline part at position i
ResponseMime(i) == IF i % 2 = 1 THEN "image/png" ELSE "image/webp"
TextPart == [inline |-> FALSE, mimeType |-> "", data |-> NoData]
InlinePart(m, f, i) == [inline |-> TRUE, mimeType |-> m, data |-> [of |-> f, n |-> i]]

\* what the service may put at position i of the answer to a request for file f
PartsAt(f, i) == {TextPart, InlinePart(ResponseMime(i), f, i)}

RECURSIVE PartSeqs(_, _)
PartSeqs(f, n) ==
  IF n = 0 THEN {<<>>}
  ELSE LET shorter == PartSeqs(f, n - 1)
       IN  shorter \cup {Append(s, p) : s \in {t \in shorter : Len(t) = n - 1},
                                        p \in PartsAt(f, n)}

\* response.candidates?.[0]?.content?.parts; defined is FALSE when a link of the
\* optional chain is missing
Responses(f) ==
  {[defined |-> FALSE, parts |-> <<>>]}
    \cup {[defined |-> TRUE, parts |-> s] : s \in PartSeqs(f, MaxParts)}

\* the for loop of lines 178-257 from index i on: the index of the part at
\* which it breaks, 0 when it runs off the end
RECURSIVE scanParts(_, _)
scanParts(parts, i) ==
  IF i > Len(parts) THEN 0
  ELSE IF parts[i].inline THEN i
  ELSE scanParts(parts, i + 1)

\* variant: no break, the last inline part wins
firstInline_noBreak(response) ==
  LET parts == response.parts
      inl == {i \in 1..Len(parts) : parts[i].inline}
  IN  IF ~response.defined \/ inl = {} THEN 0
      ELSE CHOOSE i \in inl : \A j \in inl : j <= i

\* if (parts) { for (const part of parts) ... }, lines 177-258
firstInline(response) ==
  IF ~response.defined THEN 0 ELSE scanParts(response.parts, 1)

dataUri(part) == [mimeType |-> part.mimeType, data |-> part.data, stamped |-> FALSE]

\* canvas.toDataURL(mimeType) after the stamp was drawn, lines 188-238
stampedUri(src) == [src EXCEPT !.stamped = TRUE]

----------------------------------------------------------------------------
(* Image pages: event handlers *)

\* variant: a new selection drops the requests that are outstanding
FileChange_aborting(f) ==
  /\ app \in ImageApps
  /\ IF f # NoFile
     THEN /\ selectedFile' = f
          /\ dom' = buttonState(
                      [resetResult(dom) EXCEPT !.downloadDisplay = "none",
                                               !.errorDisplay = "none"],
                      f, promptValue)
          /\ handlers' = [h \in HandlerIds |->
                            IF handlers[h].pc \in {"read", "gen"}
                            THEN Finished("aborted") ELSE handlers[h]]
     ELSE UNCHANGED <<selectedFile, dom, handlers>>
  /\ UNCHANGED <<app, selectedContext, promptValue, checkedDestination,
                 nStarted, imgLoads, has2d>>
  /\ videoUnchanged

\* fileInput 'change', lines 72-95 and 339-362
FileChange(f) ==
  /\ app \in ImageApps
  /\ IF f # NoFile
     THEN /\ selectedFile' = f
          /\ dom' = buttonState(
                      [resetResult(dom) EXCEPT !.downloadDisplay = "none",
                                               !.errorDisplay = "none"],
                      f, promptValue)
     ELSE UNCHANGED <<selectedFile, dom>>
  /\ UNCHANGED <<app, selectedContext, promptValue, checkedDestination,
                 handlers, nStarted, imgLoads, has2d>>
  /\ videoUnchanged

placeholderOf(context) ==
  CASE context = "clothes" -> "Describe the clothing..."
    [] context = "celebrity" -> "Enter celebrity name..."
    [] context = "background" -> "Describe the background..."

\* contextRadios 'change', lines 97-115
ContextChange(c) ==
  /\ app = "context"
  /\ selectedContext' = c
  /\ promptValue' = <<>>
  /\ dom' = updateButtonState([dom EXCEPT !.placeholder = placeholderOf(c)],
                              selectedFile, <<>>)
  /\ UNCHANGED <<app, selectedFile, checkedDestination, handlers, nStarted,
                 imgLoads, has2d>>
  /\ videoUnchanged

\* promptInput 'input', line 117
PromptInput(v) ==
  /\ app = "context"
  /\ promptValue' = v
  /\ dom' = updateButtonState(dom, selectedFile, v)
  /\ UNCHANGED <<app, selectedFile, selectedContext, checkedDestination,
                 handlers, nStarted, imgLoads, has2d>>
  /\ videoUnchanged

\* the user checks a destination radio (read at line 382, no listener)
DestinationChange(d) ==
  /\ app = "destination"
  /\ checkedDestination' = d
  /\ UNCHANGED <<app, selectedFile, selectedContext, promptValue, dom,
                 handlers, nStarted, imgLoads, has2d>>
  /\ videoUnchanged

\* the 'click' listener of applyButton up to its first await, lines 120-134
\* and 365-379
applyButtonClick ==
  /\ app \in ImageApps
  /\ nStarted < MaxClicks
  /\ IF selectedFile = NoFile
     THEN /\ dom' = updateUI(dom, FALSE, SelectFirstMessage, selectedFile, promptValue)
          /\ UNCHANGED <<handlers, nStarted>>
     ELSE /\ dom' = resetResult(
                      [updateUI(dom, TRUE, "", selectedFile, promptValue)
                         EXCEPT !.downloadDisplay = "none"])
          /\ nStarted' = nStarted + 1
          /\ handlers' = [handlers EXCEPT ![nStarted + 1] =
                            [IdleHandler EXCEPT
                               !.pc = "read", !.file = selectedFile,
                               !.context = IF app = "context"
                                           THEN selectedContext ELSE ""]]
  /\ UNCHANGED <<app, promptValue>>
  /\ imageUnchanged
  /\ videoUnchanged

\* the user clicks applyButton: a disabled button delivers no click
ApplyClick ==
  /\ app \in ImageApps
  /\ ~dom.applyDisabled
  /\ applyButtonClick

\* a click event that reaches the listener while no file is selected (the
\* button's first state is set by markup outside src/, and a script can
\* dispatch the event to a disabled button)
DispatchedClick ==
  /\ selectedFile = NoFile
  /\ applyButtonClick

\* fileToBase64 resolved: the prompt and the request are built and sent,
\* lines 134-172 and 379-407
ReadResolve(h) ==
  /\ app \in ImageApps
  /\ handlers[h].pc = "read"
  /\ LET f == handlers[h].file
         base64Image == fileToBase64(FileType(f), FileBytes(f))
         promptText == IF app = "context"
                       THEN buildPrompt(selectedContext, promptValue)
                       ELSE buildDestinationPrompt(checkedDestination)
     IN  handlers' = [handlers EXCEPT ![h] =
           [@ EXCEPT !.pc = "gen",
                     !.context = "",
                     !.req = [data |-> base64Image,
                              mimeType |-> FileType(selectedFile),
                              text |-> promptText,
                              context |-> selectedContext,
                              value |-> promptValue]]]
  /\ UNCHANGED <<app, promptValue, dom, nStarted>>
  /\ imageUnchanged
  /\ videoUnchanged

\* fileToBase64 rejected with the reader's error event (not an Error)
ReadReject(h) ==
  /\ app \in ImageApps
  /\ handlers[h].pc = "read"
  /\ dom' = catchFinally(dom, errorMessageOf([isError |-> FALSE, message |-> ""]),
                         selectedFile, promptValue)
  /\ handlers' = [handlers EXCEPT ![h] = Finished("readError")]
  /\ UNCHANGED <<app, promptValue, nStarted>>
  /\ imageUnchanged
  /\ videoUnchanged

showEdited(d, src) ==
  [d EXCEPT !.editedSrc = src, !.editedDisplay = "block",
            !.editedPlaceholder = "none"]

showDownload(d, src) ==
  [d EXCEPT !.downloadHref = src, !.downloadDisplay = "inline-block"]

\* generateContent resolved, lines 174-262 and 409-437, then catch/finally
GenResolve(h, response) ==
  /\ app \in ImageApps
  /\ handlers[h].pc = "gen"
  /\ LET i == firstInline(response)
         parts == response.parts
     IN  IF i = 0
         THEN /\ dom' = catchFinally(dom, NoImageMessage, selectedFile, promptValue)
              /\ handlers' = [handlers EXCEPT ![h] = Finished("noImage")]
              /\ UNCHANGED imgLoads
         ELSE /\ handlers' = [handlers EXCEPT ![h] = Finished("ok")]
              /\ IF app = "destination"
                 THEN /\ dom' = finallyOnly(
                                  showDownload(showEdited(dom, dataUri(parts[i])),
                                               dataUri(parts[i])),
                                  selectedFile, promptValue)
                      /\ UNCHANGED imgLoads
                 ELSE IF has2d
                 THEN /\ imgLoads' = imgLoads \cup {dataUri(parts[i])}
                      /\ dom' = finallyOnly(dom, selectedFile, promptValue)
                 ELSE /\ dom' = finallyOnly(showEdited(dom, dataUri(parts[i])),
                                            selectedFile, promptValue)
                      /\ UNCHANGED imgLoads
  /\ UNCHANGED <<app, selectedFile, selectedContext, promptValue,
                 checkedDestination, nStarted, has2d>>
  /\ videoUnchanged

\* generateContent rejected
GenReject(h, error) ==
  /\ app \in ImageApps
  /\ handlers[h].pc = "gen"
  /\ dom' = catchFinally(dom, errorMessageOf(error), selectedFile, promptValue)
  /\ handlers' = [handlers EXCEPT ![h] = Finished("apiError")]
  /\ UNCHANGED <<app, promptValue, nStarted>>
  /\ imageUnchanged
  /\ videoUnchanged

\* img.onload, lines 188-245
ImgOnload(src) ==
  /\ app = "context"
  /\ src \in imgLoads
  /\ imgLoads' = imgLoads \ {src}
  /\ dom' = showDownload(showEdited(dom, stampedUri(src)), stampedUri(src))
  /\ UNCHANGED <<app, selectedFile, selectedContext, promptValue,
                 checkedDestination, handlers, nStarted, has2d>>
  /\ videoUnchanged

ApiErrors ==
  {[isError |-> TRUE, message |-> m] : m \in ApiMessages}
    \cup {[isError |-> FALSE, message |-> ""]}

NextImage ==
  \/ \E f \in Files \cup {NoFile} : FileChange(f)
  \/ \E c \in Contexts : ContextChange(c)
  \/ \E v \in PromptValues : PromptInput(v)
  \/ \E d \in Destinations : DestinationChange(d)
  \/ ApplyClick
  \/ \E h \in HandlerIds : ReadResolve(h)
  \/ \E h \in HandlerIds : ReadReject(h)
  \/ \E h \in HandlerIds : \E r \in Responses(handlers[h].file) : GenResolve(h, r)
  \/ \E h \in HandlerIds : \E e \in ApiErrors : GenReject(h, e)
  \/ \E src \in imgLoads : ImgOnload(src)

SpecImage == InitImage /\ [][NextImage]_vars

----------------------------------------------------------------------------
(* Video page, lines 447-672 *)

loadingMessages ==
  <<"Warming up the animation engine...",
    "Teaching the pixels to dance...",
    "Composing a visual symphony...",
    "Rendering your masterpiece...",
    "Adding a touch of magic...",
    "Almost there, just polishing the frames...">>

UploadAlert == <<"Please upload an image and provide an animation prompt.">>
ConvertAlert == <<"There was an error processing your image. Please try again.">>
NoUriMessage == "Video generation failed or returned no URI."
FetchFailedMessage == "Failed to fetch video: Forbidden"
animationAlert(message) == <<"An error occurred during animation: ", message>>

\* error instanceof Error ? error.message : String(error)
alertMessageOf(error) ==
  IF error.isError THEN error.message ELSE "[object Object]"

VideoDom ==
  [animateDisabled |-> TRUE, loaderHidden |-> TRUE, loaderMessage |-> "",
   resultHidden |-> TRUE, resultVideoSrc |-> 0, downloadHref |-> 0,
   previewSrc |-> NoFile, previewHidden |-> TRUE, placeholderHidden |-> FALSE,
   uploadValue |-> NoFile]

InitVideo ==
  /\ app = "video"
  /\ selectedFile = NoFile
  /\ selectedContext = "clothes"
  /\ promptValue = <<>>
  /\ checkedDestination = Null
  /\ dom = VideoDom
  /\ handlers = [h \in HandlerIds |-> IdleHandler]
  /\ nStarted = 0
  /\ imgLoads = {}
  /\ has2d = FALSE
  /\ imageFile = NoFile
  /\ imageBase64 = Null
  /\ conversions = {}
  /\ messageInterval = 0
  /\ timers = [t \in HandlerIds |-> NoTimer]
  /\ lastAlert = <<>>
  /\ fnIn = Null
  /\ fnOut = NoResult

imagePageUnchanged ==
  UNCHANGED <<app, selectedFile, selectedContext, checkedDestination, imgLoads,
              has2d, fnIn, fnOut>>

\* variant: the button only looks at the prompt
updateAnimateButtonState_promptOnly(d, file, value) ==
  [d EXCEPT !.animateDisabled = ~(Len(Trim(value)) > 0)]

\* lines 548-552
updateAnimateButtonState(d, file, value) ==
  LET hasImage == file # NoFile
      hasPrompt == Len(Trim(value)) > 0
  IN  [d EXCEPT !.animateDisabled = ~(hasImage /\ hasPrompt)]

\* imageUpload 'change' up to the await, lines 506-520
HandleImageUpload(f) ==
  /\ app = "video"
  /\ IF f # NoFile
     THEN /\ imageFile' = f
          /\ dom' = [dom EXCEPT !.uploadValue = f, !.previewSrc = f,
                                !.previewHidden = FALSE,
                                !.placeholderHidden = TRUE]
          /\ conversions' = conversions \cup {f}
     ELSE /\ dom' = [dom EXCEPT !.uploadValue = NoFile]
          /\ UNCHANGED <<imageFile, conversions>>
  /\ UNCHANGED <<promptValue, handlers, nStarted, imageBase64, messageInterval,
                 timers, lastAlert>>
  /\ imagePageUnchanged

\* fileToBase64 resolved inside handleImageUpload, lines 520 and 528
ConvResolve(f) ==
  /\ app = "video"
  /\ f \in conversions
  /\ conversions' = conversions \ {f}
  /\ imageBase64' = fileToBase64(FileType(f), FileBytes(f))
  /\ dom' = updateAnimateButtonState(dom, imageFile, promptValue)
  /\ UNCHANGED <<promptValue, handlers, nStarted, imageFile, messageInterval,
                 timers, lastAlert>>
  /\ imagePageUnchanged

\* variant: the reset leaves the animate button as it was
resetUploader_noRefresh(d, value) ==
  [d EXCEPT !.uploadValue = NoFile, !.previewSrc = NoFile,
            !.previewHidden = TRUE, !.placeholderHidden = FALSE]

\* lines 535-543
resetUploader(d, value) ==
  updateAnimateButtonState(
    [d EXCEPT !.uploadValue = NoFile, !.previewSrc = NoFile,
              !.previewHidden = TRUE, !.placeholderHidden = FALSE],
    NoFile, value)

\* fileToBase64 rejected inside handleImageUpload, lines 521-526
ConvReject(f) ==
  /\ app = "video"
  /\ f \in conversions
  /\ conversions' = conversions \ {f}
  /\ lastAlert' = ConvertAlert
  /\ imageFile' = NoFile
  /\ imageBase64' = Null
  /\ dom' = resetUploader(dom, promptValue)
  /\ UNCHANGED <<promptValue, handlers, nStarted, messageInterval, timers>>
  /\ imagePageUnchanged

\* promptInput 'input', line 637
VideoPromptInput(v) ==
  /\ app = "video"
  /\ promptValue' = v
  /\ dom' = updateAnimateButtonState(dom, imageFile, v)
  /\ UNCHANGED <<handlers, nStarted, imageFile, imageBase64, conversions,
                 messageInterval, timers, lastAlert>>
  /\ imagePageUnchanged

\* lines 557-566; the new timer's id is id
showLoader(d) ==
  [d EXCEPT !.loaderMessage = loadingMessages[1], !.loaderHidden = FALSE]

\* lines 571-574
hideLoader(d) == [d EXCEPT !.loaderHidden = TRUE]

clearInterval(ts, id) ==
  [t \in HandlerIds |-> IF t = id THEN NoTimer ELSE ts[t]]

\* variant: the guard of animateImage lets everything through
falsy_never(str) == FALSE

\* !str for a string or null
falsy(str) == str = Null \/ str = Undefined \/ str = <<>>

\* animateBtn 'click' up to the first await, lines 579-599
AnimateClick ==
  /\ app = "video"
  /\ ~dom.animateDisabled
  /\ nStarted < MaxClicks
  /\ IF falsy(imageBase64) \/ imageFile = NoFile \/ falsy(Trim(promptValue))
     THEN /\ lastAlert' = UploadAlert
          /\ UNCHANGED <<dom, handlers, nStarted, messageInterval, timers>>
     ELSE /\ dom' = [showLoader(dom) EXCEPT !.resultHidden = TRUE]
          /\ messageInterval' = nStarted + 1
          /\ timers' = [timers EXCEPT ![nStarted + 1] = 0]
          /\ nStarted' = nStarted + 1
          /\ handlers' = [handlers EXCEPT ![nStarted + 1] =
               [IdleHandler EXCEPT
                  !.pc = "gen", !.file = imageFile,
                  !.req = [data |-> imageBase64,
                           mimeType |-> FileType(imageFile),
                           text |-> Trim(promptValue),
                           context |-> "", value |-> promptValue]]]
          /\ UNCHANGED lastAlert
  /\ UNCHANGED <<promptValue, imageFile, imageBase64, conversions>>
  /\ imagePageUnchanged

Operations ==
  {[done |-> FALSE, uri |-> FALSE], [done |-> TRUE, uri |-> FALSE],
   [done |-> TRUE, uri |-> TRUE]}

\* the catch and finally blocks, lines 627-632
videoFails(h, message, outcome) ==
  /\ lastAlert' = animationAlert(message)
  /\ dom' = hideLoader(dom)
  /\ timers' = clearInterval(timers, messageInterval)
  /\ handlers' = [handlers EXCEPT ![h] = Finished(outcome)]

\* variant: the loop test ignores operation.done
afterOperation_neverDone(h, operation) ==
  /\ handlers' = [handlers EXCEPT ![h] = [@ EXCEPT !.pc = "delay", !.req = NoReq]]
  /\ UNCHANGED <<dom, timers, lastAlert>>

\* lines 602-614 from the loop test on, with the operation just received
afterOperation(h, operation) ==
  IF ~operation.done
  THEN /\ handlers' = [handlers EXCEPT ![h] = [@ EXCEPT !.pc = "delay", !.req = NoReq]]
       /\ UNCHANGED <<dom, timers, lastAlert>>
  ELSE IF ~operation.uri
  THEN videoFails(h, NoUriMessage, "noUri")
  ELSE /\ handlers' = [handlers EXCEPT ![h] = [@ EXCEPT !.pc = "fetch", !.req = NoReq]]
       /\ UNCHANGED <<dom, timers, lastAlert>>

videoStep ==
  /\ UNCHANGED <<promptValue, nStarted, imageFile, imageBase64, conversions,
                 messageInterval>>
  /\ imagePageUnchanged

\* generateVideos resolved, line 589
GenVideosResolve(h, operation) ==
  /\ app = "video"
  /\ handlers[h].pc = "gen"
  /\ afterOperation(h, operation)
  /\ videoStep

\* the 10 s timer fired and the status poll is issued, lines 603-604
DelayElapsed(h) ==
  /\ app = "video"
  /\ handlers[h].pc = "delay"
  /\ handlers[h].polls < MaxPolls
  /\ handlers' = [handlers EXCEPT ![h] =
       [@ EXCEPT !.pc = "poll", !.delays = @ + 1, !.polls = @ + 1]]
  /\ UNCHANGED <<dom, timers, lastAlert>>
  /\ videoStep

\* getVideosOperation resolved, line 604
PollResolve(h, operation) ==
  /\ app = "video"
  /\ handlers[h].pc = "poll"
  /\ afterOperation(h, operation)
  /\ videoStep

\* fetch resolved, lines 614-619
FetchResolve(h, ok) ==
  /\ app = "video"
  /\ handlers[h].pc = "fetch"
  /\ IF ok
     THEN /\ handlers' = [handlers EXCEPT ![h] = [@ EXCEPT !.pc = "blob"]]
          /\ UNCHANGED <<dom, timers, lastAlert>>
     ELSE videoFails(h, FetchFailedMessage, "fetchFailed")
  /\ videoStep

\* response.blob() resolved, lines 619-625, then finally
BlobResolve(h) ==
  /\ app = "video"
  /\ handlers[h].pc = "blob"
  /\ dom' = hideLoader([dom EXCEPT !.resultVideoSrc = h, !.downloadHref = h,
                                   !.resultHidden = FALSE])
  /\ timers' = clearInterval(timers, messageInterval)
  /\ handlers' = [handlers EXCEPT ![h] = Finished("ok")]
  /\ UNCHANGED lastAlert
  /\ videoStep

AwaitingCall == {"gen", "poll", "fetch", "blob"}

\* any awaited call rejected, lines 627-632
CallRejects(h, error) ==
  /\ app = "video"
  /\ handlers[h].pc \in AwaitingCall
  /\ videoFails(h, alertMessageOf(error), "apiError")
  /\ videoStep

NextVideo ==
  \/ \E f \in Files \cup {NoFile} : HandleImageUpload(f)
  \/ \E f \in Files : ConvResolve(f)
  \/ \E f \in Files : ConvReject(f)
  \/ \E v \in PromptValues : VideoPromptInput(v)
  \/ AnimateClick
  \/ \E h \in HandlerIds : \E op \in Operations : GenVideosResolve(h, op)
  \/ \E h \in HandlerIds : DelayElapsed(h)
  \/ \E h \in HandlerIds : \E op \in Operations : PollResolve(h, op)
  \/ \E h \in HandlerIds : \E ok \in BOOLEAN : FetchResolve(h, ok)
  \/ \E h \in HandlerIds : BlobResolve(h)
  \/ \E h \in HandlerIds : \E e \in ApiErrors : CallRejects(h, e)

SpecVideo == InitVideo /\ [][NextVideo]_vars

----------------------------------------------------------------------------
(* The video page when timers fire, replies arrive, and the operation      *)
(* reports done by its MaxPolls-th status poll at the latest.              *)

\* getVideosOperation resolved, the last poll of the bound reporting done
PollResolveDone(h, operation) ==
  /\ handlers[h].polls >= MaxPolls => operation.done
  /\ PollResolve(h, operation)

\* the continuations of animateImage call h: timers and network replies
HandlerStep(h) ==
  \/ \E op \in Operations : GenVideosResolve(h, op)
  \/ DelayElapsed(h)
  \/ \E op \in Operations : PollResolveDone(h, op)
  \/ \E ok \in BOOLEAN : FetchResolve(h, ok)
  \/ BlobResolve(h)
  \/ \E e \in ApiErrors : CallRejects(h, e)

\* the user's inputs of this specification: one file, two prompt texts
FairFiles   == {1}
FairPrompts == {<<>>, <<"x">>}

NextVideoFair ==
  \/ \E f \in FairFiles \cup {NoFile} : HandleImageUpload(f)
  \/ \E f \in FairFiles : ConvResolve(f)
  \/ \E f \in FairFiles : ConvReject(f)
  \/ \E v \in FairPrompts : VideoPromptInput(v)
  \/ AnimateClick
  \/ \E h \in HandlerIds : \E op \in Operations : GenVideosResolve(h, op)
  \/ \E h \in HandlerIds : DelayElapsed(h)
  \/ \E h \in HandlerIds : \E op \in Operations : PollResolveDone(h, op)
  \/ \E h \in HandlerIds : \E ok \in BOOLEAN : FetchResolve(h, ok)
  \/ \E h \in HandlerIds : BlobResolve(h)
  \/ \E h \in HandlerIds : \E e \in ApiErrors : CallRejects(h, e)

SpecVideoFair ==
  /\ InitVideo
  /\ [][NextVideoFair]_vars
  /\ \A h \in HandlerIds : WF_vars(HandlerStep(h))

----------------------------------------------------------------------------
(* The video page with the ticks of the status-message timers *)

\* the setInterval callback of timer t, lines 562-565
Tick(t) ==
  /\ app = "video"
  /\ timers[t] # NoTimer
  /\ LET messageIndex == (timers[t] + 1) % Len(loadingMessages)
     IN  /\ timers' = [timers EXCEPT ![t] = messageIndex]
         /\ dom' = [dom EXCEPT !.loaderMessage = loadingMessages[messageIndex + 1]]
  /\ UNCHANGED <<promptValue, handlers, nStarted, imageFile, imageBase64,
                 conversions, messageInterval, lastAlert>>
  /\ imagePageUnchanged

NextLoader ==
  \/ \E f \in FairFiles \cup {NoFile} : HandleImageUpload(f)
  \/ \E f \in FairFiles : ConvResolve(f)
  \/ \E f \in FairFiles : ConvReject(f)
  \/ \E v \in FairPrompts : VideoPromptInput(v)
  \/ AnimateClick
  \/ \E h \in HandlerIds : \E op \in Operations : GenVideosResolve(h, op)
  \/ \E h \in HandlerIds : DelayElapsed(h)
  \/ \E h \in HandlerIds : \E op \in Operations : PollResolve(h, op)
  \/ \E h \in HandlerIds : \E ok \in BOOLEAN : FetchResolve(h, ok)
  \/ \E h \in HandlerIds : BlobResolve(h)
  \/ \E h \in HandlerIds : \E e \in ApiErrors : CallRejects(h, e)
  \/ \E t \in HandlerIds : Tick(t)

SpecLoader == InitVideo /\ [][NextLoader]_vars

----------------------------------------------------------------------------
(* The pure functions on their own, over larger input sets *)

fnUnchanged ==
  UNCHANGED <<app, selectedFile, selectedContext, promptValue,
              checkedDestination, dom, handlers, nStarted, imgLoads, has2d,
              imageFile, imageBase64, conversions, messageInterval, timers,
              lastAlert, fnIn>>

InitFn ==
  /\ selectedFile = NoFile
  /\ selectedContext = "clothes"
  /\ promptValue = <<>>
  /\ checkedDestination = Null
  /\ dom = ImageDom
  /\ handlers = [h \in HandlerIds |-> IdleHandler]
  /\ nStarted = 0
  /\ imgLoads = {}
  /\ has2d = FALSE
  /\ imageFile = NoFile
  /\ imageBase64 = Null
  /\ conversions = {}
  /\ messageInterval = 0
  /\ timers = [t \in HandlerIds |-> NoTimer]
  /\ lastAlert = <<>>
  /\ fnOut = NoResult

PromptInputs ==
  {[context |-> c, value |-> v] : c \in Contexts, v \in SeqsUpTo(Chars, MaxText)}
    \cup {[context |-> "destination", value |-> d] : d \in Destinations \cup {Null}}

InitPrompt ==
  /\ app = "promptBuilder"
  /\ fnIn \in PromptInputs
  /\ InitFn

\* lines 137-150 applied to fnIn
BuildContextPrompt ==
  /\ app = "promptBuilder"
  /\ fnIn.context \in Contexts
  /\ fnOut.state = "pending"
  /\ fnOut' = [state |-> "resolved", value |-> buildPrompt(fnIn.context, fnIn.value)]
  /\ fnUnchanged

\* lines 382-385 applied to fnIn
BuildDestinationPrompt ==
  /\ app = "promptBuilder"
  /\ fnIn.context = "destination"
  /\ fnOut.state = "pending"
  /\ fnOut' = [state |-> "resolved", value |-> buildDestinationPrompt(fnIn.value)]
  /\ fnUnchanged

NextPrompt == BuildContextPrompt \/ BuildDestinationPrompt

SpecPrompt == InitPrompt /\ [][NextPrompt]_vars

FileTypes == {"image/png", "image/jpeg", ""}

Base64Inputs ==
  {[type |-> t, bytes |-> b] : t \in FileTypes, b \in SeqsUpTo(ByteVals, MaxBytes)}

InitBase64 ==
  /\ app = "fileToBase64"
  /\ fnIn \in Base64Inputs
  /\ InitFn

\* reader.onload, lines 35 and 493-498
ReaderOnload ==
  /\ app = "fileToBase64"
  /\ fnOut.state = "pending"
  /\ fnOut' = [state |-> "resolved", value |-> fileToBase64(fnIn.type, fnIn.bytes)]
  /\ fnUnchanged

\* reader.onerror, lines 36 and 499
ReaderOnerror ==
  /\ app = "fileToBase64"
  /\ fnOut.state = "pending"
  /\ fnOut' = [state |-> "rejected", value |-> <<>>]
  /\ fnUnchanged

NextBase64 == ReaderOnload \/ ReaderOnerror

SpecBase64 == InitBase64 /\ [][NextBase64]_vars

----------------------------------------------------------------------------
(* The watermark drawn by img.onload, lines 188-245, on the page's one     *)
(* canvas.  Lengths are in 1/48 pixel so that w/2, min/4, radius/12 and    *)
(* radius/1.5 stay integers; angles are in degrees.                        *)

Px(n) == 48 * n
Min(a, b) == IF a < b THEN a ELSE b
Identity == [x |-> 0, y |-> 0, rot |-> 0]

\* the drawing state of a 2d context after its canvas was (re)sized
DefaultCtx ==
  [tf |-> Identity, strokeStyle |-> "#000000", fillStyle |-> "#000000",
   lineWidth |-> Px(1), font |-> <<Px(10), "sans-serif">>,
   textAlign |-> "start", textBaseline |-> "alphabetic", stack |-> <<>>]

FreshCanvas == [width |-> 300, height |-> 150, ops |-> <<>>, ctx |-> DefaultCtx]

\* assigning canvas.width / canvas.height clears the bitmap and resets the context
canvasResize(cv, w, h) ==
  [cv EXCEPT !.width = w, !.height = h, !.ops = <<>>, !.ctx = DefaultCtx]

ctxSave(ctx) == [ctx EXCEPT !.stack = Append(@, [ctx EXCEPT !.stack = <<>>])]

\* variant: ctx.restore() is missing
ctxRestore_missing(ctx) == ctx

ctxRestore(ctx) ==
  IF ctx.stack = <<>> THEN ctx
  ELSE [ctx.stack[Len(ctx.stack)] EXCEPT
          !.stack = SubSeq(ctx.stack, 1, Len(ctx.stack) - 1)]

ctxTranslate(ctx, dx, dy) ==
  [ctx EXCEPT !.tf = [@ EXCEPT !.x = @ + dx, !.y = @ + dy]]

ctxRotate(ctx, degrees) == [ctx EXCEPT !.tf = [@ EXCEPT !.rot = @ + degrees]]

DrawOp(name, ctx, a, b, c, d, text) ==
  [op |-> name, a |-> a, b |-> b, c |-> c, d |-> d, text |-> text,
   tf |-> ctx.tf, strokeStyle |-> ctx.strokeStyle, fillStyle |-> ctx.fillStyle,
   lineWidth |-> ctx.lineWidth, font |-> ctx.font,
   textAlign |-> ctx.textAlign, textBaseline |-> ctx.textBaseline]

\* lines 200-205: for (let i = -canvas.height; i < canvas.width; i += step)
RECURSIVE hatchLines(_, _, _, _)
hatchLines(ctx, i, width, height) ==
  IF i < width
  THEN <<DrawOp("stroke-line", ctx, Px(i), 0, Px(i + height), Px(height), "")>>
         \o hatchLines(ctx, i + 40, width, height)
  ELSE <<>>

\* lines 189-238 run on canvas cv for a decoded image of w x h pixels
drawWatermark(cv, w, h) ==
  LET c0 == canvasResize(cv, w, h).ctx
      o1 == <<DrawOp("drawImage", c0, 0, 0, 0, 0, "")>>
      c1 == [c0 EXCEPT !.strokeStyle = "rgba(80, 80, 80, 0.6)", !.lineWidth = Px(4)]
      o2 == hatchLines(c1, -h, w, h)
      centerX == Px(w) \div 2
      centerY == Px(h) \div 2
      radius == Px(Min(w, h)) \div 4
      c2 == ctxRotate(ctxTranslate(ctxSave(c1), centerX, centerY), -15)
      c3 == [c2 EXCEPT !.strokeStyle = "rgba(211, 47, 47, 0.75)",
                       !.fillStyle = "rgba(211, 47, 47, 0.75)",
                       !.lineWidth = radius \div 12]
      o3 == <<DrawOp("stroke-arc", c3, 0, 0, radius, 360, "")>>
      c4 == [c3 EXCEPT !.font = <<(radius * 2) \div 3, "bold 'Impact', 'Arial Black', sans-serif">>,
                       !.textAlign = "center", !.textBaseline = "middle"]
      o4 == <<DrawOp("fillText", c4, 0, 0, 0, 0, "PAIDZ")>>
      c5 == ctxRestore(c4)
  IN  [width |-> w, height |-> h, ops |-> o1 \o o2 \o o3 \o o4, ctx |-> c5]

ImageDims == {25 * d : d \in 1..MaxDim}

InitWatermark ==
  /\ app = "watermark"
  /\ fnIn = [w |-> 0, h |-> 0, runs |-> 0, prevW |-> 0, prevH |-> 0, prevOps |-> <<>>]
  /\ selectedFile = NoFile
  /\ selectedContext = "clothes"
  /\ promptValue = <<>>
  /\ checkedDestination = Null
  /\ dom = ImageDom
  /\ handlers = [i \in HandlerIds |-> IdleHandler]
  /\ nStarted = 0
  /\ imgLoads = {}
  /\ has2d = TRUE
  /\ imageFile = NoFile
  /\ imageBase64 = Null
  /\ conversions = {}
  /\ messageInterval = 0
  /\ timers = [t \in HandlerIds |-> NoTimer]
  /\ lastAlert = <<>>
  /\ fnOut = [state |-> "pending", value |-> FreshCanvas]

\* img.onload for a decoded image of w x h pixels
WatermarkOnload(w, h) ==
  /\ app = "watermark"
  /\ fnIn.runs < MaxRuns
  /\ fnIn' = [w |-> w, h |-> h, runs |-> fnIn.runs + 1,
              prevW |-> fnIn.w, prevH |-> fnIn.h, prevOps |-> fnOut.value.ops]
  /\ fnOut' = [state |-> "resolved", value |-> drawWatermark(fnOut.value, w, h)]
  /\ UNCHANGED <<app, selectedFile, selectedContext, promptValue,
                 checkedDestination, dom, handlers, nStarted, imgLoads, has2d,
                 imageFile, imageBase64, conversions, messageInterval, timers,
                 lastAlert>>

NextWatermark == \E w, h \in ImageDims : WatermarkOnload(w, h)

SpecWatermark == InitWatermark /\ [][NextWatermark]_vars

Init == InitImage \/ InitVideo

Next == NextImage \/ NextVideo

Spec == Init /\ [][Next]_vars

\* all pages, with clicks that reach the image pages' listener without a file
NextDispatch == NextImage \/ NextVideo \/ DispatchedClick
SpecDispatch == Init /\ [][NextDispatch]_vars

----------------------------------------------------------------------------
(* Properties *)

Active(h) == handlers[h].pc \notin {"none", "fin"}
Finishes(h) == Active(h) /\ handlers'[h].pc = "fin"
FailureOutcomes == {"readError", "apiError", "noImage"}
ImagePage == app \in ImageApps

\* C1: image pages - when a handler ends in a rejected call, a rejected file
\* read or a response without image, the error area is visible and its text
\* starts with "Error: ".
C1_ErrorVisibleAfterFailure ==
  [][\A h \in HandlerIds :
       (ImagePage /\ Finishes(h) /\ handlers'[h].outcome \in FailureOutcomes)
         => /\ dom'.errorDisplay = "block"
            /\ dom'.errorText # <<>>
            /\ dom'.errorText[1] = "Error: "]_vars

\* C2: image pages - while a click handler is running the apply button is
\* disabled, and at most one handler is running.
C2_ApplyDisabledWhileRunning ==
  ImagePage =>
    /\ \A h \in HandlerIds : Active(h) => dom.applyDisabled
    /\ Cardinality({h \in HandlerIds : Active(h)}) <= 1

\* C3: video page - while an animateImage call is running the animate button
\* is disabled, and at most one call is running.
C3_OneVideoRequest ==
  app = "video" =>
    /\ \A h \in HandlerIds : Active(h) => dom.animateDisabled
    /\ Cardinality({h \in HandlerIds : Active(h)}) <= 1

\* C4: whenever a handler that started a request ends, whatever the outcome,
\* the loader is hidden, and on the image pages the apply button is disabled
\* exactly when no file is selected or the required prompt trims to nothing.
C4_IdleAfterHandler ==
  [][\A h \in HandlerIds :
       Finishes(h) =>
         IF ImagePage
         THEN /\ dom'.loader = "none"
              /\ dom'.applyDisabled <=>
                   (selectedFile' = NoFile
                      \/ (app = "context" /\ Trim(promptValue') = <<>>))
         ELSE dom'.loaderHidden]_vars

C4_Witness ==
  /\ app = "context"
  /\ \E h \in HandlerIds :
       handlers[h].pc = "fin" /\ handlers[h].outcome = "apiError"
  /\ \A h \in HandlerIds : ~Active(h)
  /\ dom.loader = "none"
  /\ ~dom.applyDisabled

\* C5: image pages - when a handler ends because the response had no inline
\* part, the error text is the "did not return an image" message and the
\* result view shows the placeholder: edited image hidden, placeholder
\* shown, download link hidden.
C5_PlaceholderAfterNoImage ==
  [][\A h \in HandlerIds :
       (ImagePage /\ Finishes(h) /\ handlers'[h].outcome = "noImage")
         => /\ dom'.errorText = <<"Error: ", NoImageMessage>>
            /\ dom'.editedDisplay = "none"
            /\ dom'.editedPlaceholder = "block"
            /\ dom'.downloadDisplay = "none"]_vars

NoRequestInFlight == \A h \in HandlerIds : ~Active(h)

TriggerDisabled ==
  IF ImagePage THEN dom.applyDisabled ELSE dom.animateDisabled

InputsMissing ==
  CASE app = "context" -> selectedFile = NoFile \/ Trim(promptValue) = <<>>
    [] app = "destination" -> selectedFile = NoFile
    [] app = "video" -> imageFile = NoFile \/ Trim(promptValue) = <<>>

\* C6 as stated: with no request in flight the trigger is disabled exactly
\* when no file is selected or the required prompt trims to nothing - on the
\* video page as soon as the file is selected.
C6_TriggerTracksInputs ==
  NoRequestInFlight => (TriggerDisabled <=> InputsMissing)

\* C6 amended: the same, in the states where no base64 conversion of a
\* selected file is still pending on the video page.
C6_TriggerTracksSettledInputs ==
  (NoRequestInFlight /\ conversions = {}) => (TriggerDisabled <=> InputsMissing)

C6_Witness ==
  /\ app = "video"
  /\ NoRequestInFlight
  /\ conversions = {}
  /\ imageFile # NoFile
  /\ imageBase64 = fileToBase64(FileType(imageFile), FileBytes(imageFile))
  /\ Trim(promptValue) # <<>>
  /\ ~dom.animateDisabled

\* C7: video page - a handler inside the poll loop has issued exactly as many
\* status polls as delays have elapsed, has produced neither result nor
\* error, and the loader is visible.
C7_PollLoopKeepsLoader ==
  app = "video" =>
    \A h \in HandlerIds :
      handlers[h].pc \in {"delay", "poll"} =>
        /\ handlers[h].polls = handlers[h].delays
        /\ handlers[h].outcome = "none"
        /\ ~dom.loaderHidden

\* C8: video page - when a handler ends because the finished operation has
\* no URI, the alert carries "Video generation failed or returned no URI.",
\* the result container is hidden, the video element and the download link
\* are as they were, and the loader is hidden.
C8_NoUriLeavesResultHidden ==
  [][\A h \in HandlerIds :
       (app = "video" /\ Finishes(h) /\ handlers'[h].outcome = "noUri")
         => /\ lastAlert' = animationAlert(NoUriMessage)
            /\ handlers[h].pc # "fetch"
            /\ dom'.resultHidden
            /\ dom'.resultVideoSrc = dom.resultVideoSrc
            /\ dom'.downloadHref = dom.downloadHref
            /\ dom'.loaderHidden]_vars

Spaces(n) == [i \in 1..n |-> " "]

\* t is s without its leading and trailing blanks
IsTrimOf(t, s) ==
  /\ t = <<>> \/ (Head(t) # " " /\ t[Len(t)] # " ")
  /\ \E a, b \in 0..Len(s) : s = Spaces(a) \o t \o Spaces(b)

TemplateHead(context) ==
  CASE context = "clothes" -> "Change the clothes of the person in the image to be: "
    [] context = "celebrity" -> "Add the celebrity \""
    [] context = "background" -> "Change only the background of this image to: "
    [] context = "destination" ->
         "Take the person in the image and place them in front of the "

TemplateTail(context) ==
  CASE context = "clothes" -> ". Ensure the result is a high-quality, realistic photo."
    [] context = "celebrity" ->
         "\" standing next to the person in this image. Do not change the original person. The result should be a high-quality, realistic photo."
    [] context = "background" ->
         ". Do not change the person or their clothes. The result should be a high-quality, realistic photo."
    [] context = "destination" ->
         " in Saudi Arabia. The person should be wearing Ihram (ehram)."

\* C9: the built prompt is non-empty and is the context's template around
\* the trimmed free text; on the destination page it is the fixed template
\* around the checked destination, or around "Kaaba" when none is checked.
C9_PromptEmbedsTrimmedText ==
  (app = "promptBuilder" /\ fnOut.state = "resolved") =>
    LET out == fnOut.value
        embedded == SubSeq(out, 2, Len(out) - 1)
    IN  /\ Len(out) >= 2
        /\ out[1] = TemplateHead(fnIn.context)
        /\ out[Len(out)] = TemplateTail(fnIn.context)
        /\ IF fnIn.context \in Contexts
           THEN IsTrimOf(embedded, fnIn.value) /\ Contains(out, Trim(fnIn.value))
           ELSE IF fnIn.value = Null
           THEN embedded = <<"Kaaba">>
           ELSE Contains(embedded, fnIn.value)

C9_Witness ==
  /\ app = "promptBuilder"
  /\ fnOut.state = "resolved"
  /\ fnIn.context = "celebrity"
  /\ fnIn.value = <<" ", "x", " ", " ">>
  /\ Len(fnOut.value) = 3

FirstComma(s) == CHOOSE i \in 1..Len(s) : s[i] = "," /\ \A j \in 1..(i - 1) : s[j] # ","

\* C10: a successful fileToBase64 yields the part of the data URI after its
\* first comma, without the "data:<mime>;base64," prefix, and decoding it
\* gives the file's bytes.
C10_Base64RoundTrip ==
  (app = "fileToBase64" /\ fnOut.state = "resolved") =>
    LET uri == readAsDataURL(fnIn.type, fnIn.bytes)
        out == fnOut.value
    IN  /\ out = SubSeq(uri, FirstComma(uri) + 1, Len(uri))
        /\ \A i \in 1..Len(out) : out[i] \notin {"data:", ";base64", ",", fnIn.type}
        /\ Base64Decode(out) = fnIn.bytes

C10_Witness ==
  /\ app = "fileToBase64"
  /\ fnOut.state = "resolved"
  /\ fnIn.bytes = <<255, 0>>
  /\ fnOut.value = <<"/", "w", "A", "=">>

StampOps(ops) == {i \in 1..Len(ops) : ops[i].op \in {"stroke-arc", "fillText"}}

\* C11: after a watermark run the canvas has the image's width and height;
\* the stamp circle and text are drawn about (width/2, height/2), rotated by
\* -15 degrees, with radius min(width, height)/4; the transform is back to
\* the identity; and a run on the same size as the run before it performs
\* the same drawing operations with the same arguments.
C11_WatermarkGeometry ==
  (app = "watermark" /\ fnOut.state = "resolved") =>
    LET cv == fnOut.value
        ops == cv.ops
    IN  /\ cv.width = fnIn.w /\ cv.height = fnIn.h
        /\ Cardinality(StampOps(ops)) = 2
        /\ \A i \in StampOps(ops) :
             /\ 2 * ops[i].tf.x = Px(fnIn.w)
             /\ 2 * ops[i].tf.y = Px(fnIn.h)
             /\ ops[i].tf.rot = -15
        /\ \E i \in StampOps(ops) :
             ops[i].op = "stroke-arc" /\ 4 * ops[i].c = Px(Min(fnIn.w, fnIn.h))
        /\ ops[1].op = "drawImage" /\ ops[1].tf = Identity
        /\ cv.ctx.tf = Identity
        /\ cv.ctx.stack = <<>>
        /\ (fnIn.runs >= 2 /\ fnIn.prevW = fnIn.w /\ fnIn.prevH = fnIn.h)
             => ops = fnIn.prevOps

C11_Witness ==
  /\ app = "watermark"
  /\ fnOut.state = "resolved"
  /\ fnIn.runs = 2
  /\ fnIn.w = 75 /\ fnIn.h = 50
  /\ fnIn.prevW = 75 /\ fnIn.prevH = 50
  /\ Len(fnOut.value.ops) = 7

InlineIndexes(response) ==
  IF response.defined
  THEN {i \in 1..Len(response.parts) : response.parts[i].inline}
  ELSE {}

\* where an image page puts the image it found: the edited image (and the
\* download link on the destination page), or the Image object being decoded
RenderedFrom(part) ==
  CASE app = "destination" ->
         /\ dom'.editedSrc = dataUri(part) /\ dom'.editedDisplay = "block"
         /\ dom'.downloadHref = dataUri(part)
    [] app = "context" /\ has2d -> dataUri(part) \in imgLoads'
    [] app = "context" /\ ~has2d ->
         dom'.editedSrc = dataUri(part) /\ dom'.editedDisplay = "block"

\* C12: image pages - for every response, the handler fails exactly when no
\* part carries inline data; otherwise the image it renders is the data URI
\* of the first inline part, with that part's MIME type, whatever follows.
C12_FirstInlinePartWins ==
  [][\A h \in HandlerIds :
       (ImagePage /\ handlers[h].pc = "gen" /\ handlers'[h].pc = "fin") =>
         \A r \in Responses(handlers[h].file) :
           GenResolve(h, r) =>
             /\ handlers'[h].outcome = "noImage" <=> InlineIndexes(r) = {}
             /\ handlers'[h].outcome = "ok" <=> InlineIndexes(r) # {}
             /\ InlineIndexes(r) # {} =>
                  \E k \in InlineIndexes(r) :
                    /\ \A j \in InlineIndexes(r) : k <= j
                    /\ RenderedFrom(r.parts[k])]_vars

C12_Witness ==
  /\ app = "destination"
  /\ dom.editedDisplay = "block"
  /\ dom.editedSrc.data.n = 2
  /\ dom.editedSrc.mimeType = ResponseMime(2)
  /\ \E h \in HandlerIds : handlers[h].pc = "fin" /\ handlers[h].outcome = "ok"

VideoOutcomeExclusive(h) ==
  \/ /\ handlers'[h].outcome = "ok"
     /\ ~dom'.resultHidden
     /\ dom'.resultVideoSrc = h
     /\ dom'.downloadHref = h
     /\ lastAlert' = lastAlert
  \/ /\ handlers'[h].outcome # "ok"
     /\ lastAlert' # <<>>
     /\ lastAlert'[1] = "An error occurred during animation: "
     /\ dom'.resultHidden = dom.resultHidden
     /\ dom'.resultVideoSrc = dom.resultVideoSrc

\* C13: video page, timers and replies scheduled fairly and the operation
\* done in the end - every started animateImage call ends with the loader
\* hidden; when it ends either the fetched video is shown or an error was
\* alerted, never both; an operation that is done at once is neither
\* delayed nor polled.
C13_VideoActionTerminates ==
  /\ \A h \in HandlerIds :
       Active(h) ~> (handlers[h].pc = "fin" /\ dom.loaderHidden)
  /\ [][\A h \in HandlerIds :
          /\ (app = "video" /\ Finishes(h)) =>
               (dom'.loaderHidden /\ VideoOutcomeExclusive(h))
          /\ (app = "video" /\ handlers[h].pc = "gen") =>
               \A op \in {o \in Operations : o.done} :
                 GenVideosResolve(h, op) =>
                   (handlers'[h].pc \in {"fetch", "fin"}
                      /\ handlers'[h].polls = 0 /\ handlers'[h].delays = 0)
          /\ (app = "video" /\ handlers[h].pc \in {"fetch", "blob"}) =>
               handlers'[h].pc \in {"fetch", "blob", "fin"}]_vars

C13_Witness ==
  /\ app = "video"
  /\ \E h \in HandlerIds :
       /\ handlers[h].pc = "fin" /\ handlers[h].outcome = "ok"
       /\ dom.resultVideoSrc = h
  /\ NoRequestInFlight
  /\ ~dom.resultHidden
  /\ dom.loaderHidden

\* what the user controls: the selection, the prompt, the context, the radio
UserInputs == <<selectedFile, selectedContext, promptValue, checkedDestination,
                imageFile>>

\* the reply of call h reached the result view (or the Image being decoded)
ReplyRendered(h) ==
  CASE app = "video" -> ~dom'.resultHidden /\ dom'.resultVideoSrc = h
    [] app = "context" /\ has2d ->
         \E src \in imgLoads' : src.data.of = handlers[h].file
    [] OTHER ->
         dom'.editedDisplay = "block" /\ dom'.editedSrc.data.of = handlers[h].file

CleanupRan == IF app = "video" THEN dom'.loaderHidden ELSE dom'.loader = "none"

\* C14: all pages - a step that changes the selected file, the prompt or the
\* context leaves every outstanding call where it was; a call only ever
\* leaves its course by finishing, its finishing step runs the cleanup, and a
\* successful reply is rendered (a decoded Image is put into the result view).
C14_NoCancellation ==
  [][/\ \A h \in HandlerIds :
          Active(h) =>
            /\ UserInputs' # UserInputs => handlers'[h] = handlers[h]
            /\ handlers'[h].pc # "none"
            /\ handlers'[h].pc = "fin" => CleanupRan
            /\ (handlers'[h].pc = "fin" /\ handlers'[h].outcome = "ok")
                 => ReplyRendered(h)
            /\ handlers'[h].pc = "fin" =>
                 handlers'[h].outcome \in
                   FailureOutcomes \cup {"ok", "noUri", "fetchFailed"}
     /\ \A src \in imgLoads :
          ImgOnload(src) =>
            dom'.editedDisplay = "block" /\ dom'.editedSrc = stampedUri(src)]_vars

\* a reply for one file is on display while another file is selected
C14_Witness ==
  /\ app = "destination"
  /\ selectedFile # NoFile
  /\ dom.editedDisplay = "block"
  /\ dom.editedSrc.data.of # selectedFile
  /\ dom.loader = "none"
  /\ \E h \in HandlerIds : handlers[h].pc = "fin" /\ handlers[h].outcome = "ok"

UploaderReset ==
  /\ imageFile = NoFile
  /\ imageBase64 = Null
  /\ dom.previewHidden
  /\ ~dom.placeholderHidden
  /\ dom.animateDisabled

\* C15: video page - the step in which a file's base64 conversion fails
\* alerts the processing error and leaves imageFile and imageBase64 null,
\* the preview hidden, the placeholder shown and the animate button disabled.
C15_ConversionFailureResets ==
  [][\A f \in conversions :
       ConvReject(f) => (lastAlert' = ConvertAlert /\ UploaderReset')]_vars

\* a failed conversion has reset the uploader although a prompt is present
C15_Witness ==
  /\ app = "video"
  /\ lastAlert = ConvertAlert
  /\ UploaderReset
  /\ Len(Trim(promptValue)) > 0
  /\ dom.uploadValue = NoFile
  /\ conversions = {}

ResultCleared ==
  IF app = "video"
  THEN dom.resultHidden
  ELSE /\ dom.editedDisplay = "none"
       /\ dom.editedPlaceholder = "block"
       /\ dom.downloadDisplay = "none"

\* C16: all pages - while a request is in flight the result view is in its
\* cleared state (image pages: edited image hidden, placeholder shown,
\* download link hidden; video page: result container hidden).
C16_ResultClearedWhileInFlight ==
  (\E h \in HandlerIds : Active(h)) => ResultCleared

\* C17: context page - every request that is sent embeds a non-empty free
\* text, in the template of the context that was selected when the button
\* was clicked.
C17_PromptFromClickTime ==
  [][\A h \in HandlerIds :
       (app = "context" /\ handlers[h].pc = "read" /\ handlers'[h].pc = "gen")
         => /\ Trim(handlers'[h].req.value) # <<>>
            /\ handlers'[h].req.context = handlers[h].context
            /\ handlers'[h].req.text =
                 buildPrompt(handlers[h].context, handlers'[h].req.value)]_vars

C18_WitnessNoFile ==
  /\ ImagePage
  /\ selectedFile = NoFile
  /\ dom.errorDisplay = "block"
  /\ dom.errorText = <<"Error: ", "Please select an image first.">>
  /\ \A h \in HandlerIds : handlers[h].pc = "none"

\* C19: video page - every generateVideos request carries the base64
\* encoding of the file that was selected when it was sent, and that file's
\* MIME type.
C19_VideoPayloadOfSelectedFile ==
  \A h \in HandlerIds :
    (app = "video" /\ handlers[h].pc = "gen") =>
      LET f == handlers[h].file
      IN  /\ handlers[h].req.mimeType = FileType(f)
          /\ handlers[h].req.data = fileToBase64(FileType(f), FileBytes(f))

\* C20: image pages - an edited image on display was generated from the
\* file that is selected now, and every outstanding request carries the
\* bytes and the MIME type of one and the same file.
C20_ResultOfSelectedFile ==
  ImagePage =>
    /\ dom.editedDisplay = "block" => dom.editedSrc.data.of = selectedFile
    /\ \A h \in HandlerIds :
         handlers[h].pc = "gen" =>
           LET f == handlers[h].file
           IN  /\ handlers[h].req.data = fileToBase64(FileType(f), FileBytes(f))
               /\ handlers[h].req.mimeType = FileType(f)

\* C21: image pages - whenever the edited image is displayed, the download
\* link is visible and its href is the data URI the image shows.
C21_DownloadMatchesDisplay ==
  (ImagePage /\ dom.editedDisplay = "block") =>
    /\ dom.downloadDisplay = "inline-block"
    /\ dom.downloadHref = dom.editedSrc

\* the same on the two paths that set the link: destination page, and
\* context page with a 2d context
C21_DownloadMatchesOnLinkPaths ==
  (app = "destination" \/ (app = "context" /\ has2d))
    => C21_DownloadMatchesDisplay

\* C22: video page - the loader is visible exactly while a call is in
\* flight, every timer's message index is within the message list, and once
\* no call is in flight no status-message timer is running.
C22_LoaderTracksRequests ==
  app = "video" =>
    /\ ~dom.loaderHidden <=> (\E h \in HandlerIds : Active(h))
    /\ \A t \in HandlerIds :
         timers[t] # NoTimer => timers[t] \in 0..(Len(loadingMessages) - 1)
    /\ NoRequestInFlight => \A t \in HandlerIds : timers[t] = NoTimer

\* the part of C22 about one timer: a tick moves its index by one modulo the
\* length of the list and shows that message
C22_IndexAdvances ==
  [][\A t \in HandlerIds :
       (app = "video" /\ timers[t] # NoTimer /\ timers'[t] # NoTimer
          /\ timers'[t] # timers[t]) =>
         /\ timers'[t] = (timers[t] + 1) % Len(loadingMessages)
         /\ dom'.loaderMessage = loadingMessages[timers'[t] + 1]]_vars

====
